---- MODULE Spec2Model ----
(***************************************************************************)
(* Syntagma (server.js): the vocabulary progress table and the handlers    *)
(* that write it.                                                          *)
(*                                                                         *)
(* The table user_vocabulary_progress is a function from the rows' unique  *)
(* key <<language_code, word_text>> (user_id is the one MOCK_USER_ID) to   *)
(* the row's columns.  A handler of server.js is one action: better-sqlite3*)
(* is synchronous, so nothing interleaves with a handler before its first  *)
(* await.  The host's time zone is taken to be UTC, so that Date's local   *)
(* setMinutes/setDate arithmetic is plain addition.                        *)
(***************************************************************************)
EXTENDS Integers, Sequences, FiniteSets, TLC

VARIABLES
    db,                \* user_vocabulary_progress: key -> row
    translation_cache, \* translation_cache: key -> translation
    now,               \* the wall clock read by new Date(), Date.now(), datetime('now')
    pending,           \* the /api/lookup-word requests awaiting axios.get, oldest first
    held,              \* the latest /api/lookup-word response, as the client holds it
    last,              \* the request being answered: its input, the table before it, its outcome
    events             \* how many requests and clock advances there were

vars == <<db, translation_cache, now, pending, held, last, events>>

----------------------------------------------------------------------------
(* Bounds of the model *)

MaxEvents == 2       \* requests and clock advances in one behaviour
MaxBatch == 2        \* words in one batch request
MaxPending == 2      \* /api/lookup-word requests awaiting the provider at once
MaxSeedPasses == 8   \* passes in the earlier run that left the database file
SubSecond == 400     \* a clock advance shorter than a second, in ms
StartFraction == 700 \* the millisecond part of the clock at start

----------------------------------------------------------------------------
(* Time: a JavaScript Date / SQLite instant, as <<day, ms of the day>>.    *)

MsPerSecond == 1000
MsPerMinute == 60000
MsPerDay == 86400000

Instant(d, m) ==
    [day |-> d + (m \div MsPerDay), ms |-> m % MsPerDay]

AddMs(t, n) == Instant(t.day, t.ms + n)

AddMinutes(t, n) == Instant(t.day, t.ms + n * MsPerMinute)

AddDays(t, n) == Instant(t.day + n, t.ms)

Earlier(a, b) ==
    \/ a.day < b.day
    \/ a.day = b.day /\ a.ms < b.ms

NotLater(a, b) == ~Earlier(b, a)

(* A date text as stored in next_review_date.  fmt "sql" is SQLite's        *)
(* 'YYYY-MM-DD HH:MM:SS', fmt "iso" is Date.toISOString()'s                 *)
(* 'YYYY-MM-DDTHH:MM:SS.sssZ'; at is the instant the text denotes.          *)
toISOString(t) == [fmt |-> "iso", at |-> t]

(* SQLite datetime(x): parses either text and formats it to whole seconds, *)
(* dropping the fraction.                                                  *)
datetime(text) ==
    [fmt |-> "sql", at |-> [day |-> text.at.day, ms |-> text.at.ms - (text.at.ms % MsPerSecond)]]

(* SQLite datetime('now') at clock value t *)
datetimeNow(t) == datetime(toISOString(t))

(* a <= b on two texts that datetime() produced: same layout, so the text  *)
(* order is the order of the instants                                      *)
SqlLeq(a, b) == NotLater(a.at, b.at)

----------------------------------------------------------------------------
(* Words: strings as sequences of characters *)

lowerChar(c) ==
    CASE c = "G" -> "g"
      [] c = "P" -> "p"
      [] OTHER -> c

toLowerCase(s) == [i \in 1..Len(s) |-> lowerChar(s[i])]

RECURSIVE trimStart(_)
trimStart(s) ==
    IF s # <<>> /\ Head(s) = " " THEN trimStart(Tail(s)) ELSE s

RECURSIVE trimEnd(_)
trimEnd(s) ==
    IF s # <<>> /\ s[Len(s)] = " " THEN trimEnd(SubSeq(s, 1, Len(s) - 1)) ELSE s

trim(s) == trimEnd(trimStart(s))

(* word.toLowerCase().trim() *)
cleanWord(word) == trim(toLowerCase(word))

(* the words requests carry *)
WordInputs == { <<"g">>, <<" ", "P">> }

BlankInputs == { <<" ">> }

LangCodes == { "es" }

----------------------------------------------------------------------------
(* The interval table and the scheduler *)

SRS_STEPS ==
    (0 :> [interval |-> 1, unit |-> "minute"]) @@
    (1 :> [interval |-> 10, unit |-> "minute"]) @@
    (2 :> [interval |-> 60, unit |-> "minute"]) @@
    (3 :> [interval |-> 1, unit |-> "day"]) @@
    (4 :> [interval |-> 3, unit |-> "day"]) @@
    (5 :> [interval |-> 7, unit |-> "day"]) @@
    (6 :> [interval |-> 21, unit |-> "day"]) @@
    (7 :> [interval |-> 90, unit |-> "day"]) @@
    (8 :> [interval |-> 36500, unit |-> "day"])

(* SRS_STEPS[step] || SRS_STEPS[8] *)
srsOf(step) ==
    IF step \in DOMAIN SRS_STEPS THEN SRS_STEPS[step] ELSE SRS_STEPS[8]

(* A number of days as the fraction num/den: minutes are interval/1440 *)
getIntervalInDays(step) ==
    IF srsOf(step).unit = "minute"
    THEN [num |-> srsOf(step).interval, den |-> 1440]
    ELSE [num |-> srsOf(step).interval, den |-> 1]

getNextReviewDate(step, fromDate) ==
    IF srsOf(step).unit = "minute"
    THEN toISOString(AddMinutes(fromDate, srsOf(step).interval))
    ELSE toISOString(AddDays(fromDate, srsOf(step).interval))

----------------------------------------------------------------------------
(* The table user_vocabulary_progress *)

NULL == <<>>

(* the column defaults of CREATE TABLE, at clock value t *)
ColumnDefaults(t) ==
    [ current_step |-> 0,
      srs_interval |-> [num |-> 69, den |-> 100000],
      next_review_date |-> datetimeNow(t),
      status |-> "learning",
      successful_reads |-> 0,
      lookup_count |-> 0,
      is_target_word |-> 0,
      target_order |-> NULL ]

RowKey(langCode, word_text) == <<langCode, word_text>>

(* INSERT or UPDATE of one row *)
PutRow(table, key, row) ==
    [k \in DOMAIN table \cup {key} |-> IF k = key THEN row ELSE table[k]]

(* DELETE ... WHERE user_id = ? AND language_code = ? AND word_text = ? *)
DeleteRow(table, key) ==
    [k \in DOMAIN table \ {key} |-> table[k]]

(* Faulty variant of transaction: the writes made before the throw stay *)
transactionWithoutRollback(before, after, threw) ==
    after

(* db.transaction(fn)(list): when fn throws, the writes it made are rolled back *)
transaction(before, after, threw) ==
    IF threw THEN before ELSE after

(* The part of a batch that runs: all of it (failAt = 0), or the words     *)
(* before the failAt-th, whose statement throws                            *)
Ran(list, failAt) ==
    IF failAt = 0 THEN list ELSE SubSeq(list, 1, failAt - 1)

----------------------------------------------------------------------------
(* POST /api/pass-words-batch *)

(* the SELECT of the loop body: current_step, is_target_word, is_due_db *)
passCheck(row, txTime) ==
    [ current_step |-> row.current_step,
      is_target_word |-> row.is_target_word,
      is_due_db |-> IF SqlLeq(datetime(row.next_review_date), datetime(toISOString(txTime)))
                    THEN 1 ELSE 0 ]

(* Faulty variant of passNextStep: Math.min(..., 8) left out *)
passNextStepUnclamped(check) ==
    IF check.is_target_word = 1 THEN 8 ELSE check.current_step + 1

passNextStep(check) ==
    IF check.is_target_word = 1
    THEN 8
    ELSE IF check.current_step + 1 < 8 THEN check.current_step + 1 ELSE 8

(* Faulty variant of passStatus: nextStep > 6 for nextStep >= 6 *)
passStatusAboveSix(nextStep) ==
    IF nextStep > 6 THEN "learned" ELSE "learning"

passStatus(nextStep) ==
    IF nextStep >= 6 THEN "learned" ELSE "learning"

(* Faulty variant of passInsert: successful_reads left to its column default *)
passInsertUnread(txTime) ==
    [ColumnDefaults(txTime) EXCEPT
        !.current_step = 8,
        !.srs_interval = getIntervalInDays(8),
        !.next_review_date = getNextReviewDate(8, txTime),
        !.status = "learned"]

(* INSERT ... VALUES (?, ?, ?, ?, ?, ?, 'learned', 1): the row of a word not seen before *)
passInsert(txTime) ==
    [ColumnDefaults(txTime) EXCEPT
        !.current_step = 8,
        !.srs_interval = getIntervalInDays(8),
        !.next_review_date = getNextReviewDate(8, txTime),
        !.status = "learned",
        !.successful_reads = 1]

(* Faulty variant of passUpdate: next_review_date left as it was *)
passUpdateKeepingDate(row, nextStep, txTime) ==
    [row EXCEPT
        !.current_step = nextStep,
        !.srs_interval = getIntervalInDays(nextStep),
        !.status = passStatus(nextStep),
        !.successful_reads = @ + 1,
        !.is_target_word = 0,
        !.target_order = NULL]

(* UPDATE ... SET current_step = ?, ..., is_target_word = 0, target_order = NULL *)
passUpdate(row, nextStep, txTime) ==
    [row EXCEPT
        !.current_step = nextStep,
        !.srs_interval = getIntervalInDays(nextStep),
        !.next_review_date = getNextReviewDate(nextStep, txTime),
        !.status = passStatus(nextStep),
        !.successful_reads = @ + 1,
        !.is_target_word = 0,
        !.target_order = NULL]



(* Faulty variant of passApplies: the is_target_word clause left out *)
passAppliesWhenDue(check) ==
    check.is_due_db = 1

(* else if (check.is_due_db === 1 || check.is_target_word === 1) *)
passApplies(check) ==
    check.is_due_db = 1 \/ check.is_target_word = 1

(* the loop body for one word *)
passWord(table, langCode, word, txTime) ==
    LET key == RowKey(langCode, cleanWord(word))
    IN  IF key \notin DOMAIN table
        THEN PutRow(table, key, passInsert(txTime))
        ELSE LET check == passCheck(table[key], txTime)
             IN  IF passApplies(check)
                 THEN PutRow(table, key, passUpdate(table[key], passNextStep(check), txTime))
                 ELSE table

(* Faulty variant of passList: the loop left at the first word that is     *)
(* neither due nor a target (a return where the loop should go on)         *)
RECURSIVE passListLeavingEarly(_, _, _, _)
passListLeavingEarly(table, langCode, list, txTime) ==
    IF list = <<>>
    THEN table
    ELSE LET key == RowKey(langCode, cleanWord(Head(list)))
         IN  IF key \in DOMAIN table /\ ~passApplies(passCheck(table[key], txTime))
             THEN table
             ELSE passListLeavingEarly(passWord(table, langCode, Head(list), txTime),
                                       langCode, Tail(list), txTime)

RECURSIVE passList(_, _, _, _)
passList(table, langCode, list, txTime) ==
    IF list = <<>>
    THEN table
    ELSE passList(passWord(table, langCode, Head(list), txTime), langCode, Tail(list), txTime)

passWordsBatch(table, langCode, words, txTime, failAt) ==
    transaction(table, passList(table, langCode, Ran(words, failAt), txTime), failAt # 0)

----------------------------------------------------------------------------
(* POST /api/lookup-word: the statements on user_vocabulary_progress *)

(* An optional value: <<>> is undefined, <<v>> is v *)
Undefined == <<>>

Some(v) == <<v>>

(* SELECT current_step as step, srs_interval as interval, ... *)
selectPreviousState(table, key) ==
    IF key \in DOMAIN table
    THEN Some([ step |-> table[key].current_step,
                interval |-> table[key].srs_interval,
                nextReview |-> table[key].next_review_date,
                status |-> table[key].status,
                isTarget |-> table[key].is_target_word ])
    ELSE Undefined

(* Faulty variant of lookupUpsert: the review date scheduled as for step 0, *)
(* a minute ahead, instead of datetime('now')                               *)
lookupUpsertDueLater(table, key, t) ==
    PutRow(table, key,
        [(IF key \in DOMAIN table THEN table[key] ELSE ColumnDefaults(t)) EXCEPT
            !.current_step = 0,
            !.srs_interval = getIntervalInDays(0),
            !.next_review_date = getNextReviewDate(0, t),
            !.status = "learning",
            !.lookup_count = IF key \in DOMAIN table THEN @ + 1 ELSE 1,
            !.is_target_word = 0,
            !.target_order = NULL])

(* INSERT ... ON CONFLICT(user_id, language_code, word_text) DO UPDATE SET ... *)
lookupUpsert(table, key, t) ==
    IF key \notin DOMAIN table
    THEN PutRow(table, key,
             [ColumnDefaults(t) EXCEPT
                 !.current_step = 0,
                 !.srs_interval = getIntervalInDays(0),
                 !.next_review_date = datetimeNow(t),
                 !.status = "learning",
                 !.lookup_count = 1,
                 !.is_target_word = 0,
                 !.target_order = NULL])
    ELSE PutRow(table, key,
             [table[key] EXCEPT
                 !.current_step = 0,
                 !.srs_interval = getIntervalInDays(0),
                 !.next_review_date = datetimeNow(t),
                 !.status = "learning",
                 !.lookup_count = @ + 1,
                 !.is_target_word = 0,
                 !.target_order = NULL])

----------------------------------------------------------------------------
(* POST /api/undo-lookup *)

max0(n) == IF n > 0 THEN n ELSE 0

(* Faulty variant of undoLookup: no DELETE when previousState is missing *)
undoLookupUpdateOnly(table, langCode, word, previousState) ==
    LET key == RowKey(langCode, cleanWord(word))
    IN  IF previousState # Undefined /\ key \in DOMAIN table
        THEN PutRow(table, key,
                 [table[key] EXCEPT
                     !.current_step = previousState[1].step,
                     !.srs_interval = previousState[1].interval,
                     !.next_review_date = previousState[1].nextReview,
                     !.status = previousState[1].status,
                     !.lookup_count = max0(@ - 1),
                     !.is_target_word = IF previousState[1].isTarget # 0 THEN 1 ELSE 0,
                     !.target_order = NULL])
        ELSE table

undoLookup(table, langCode, word, previousState) ==
    LET key == RowKey(langCode, cleanWord(word))
    IN  IF previousState # Undefined
        THEN IF key \in DOMAIN table
             THEN PutRow(table, key,
                      [table[key] EXCEPT
                          !.current_step = previousState[1].step,
                          !.srs_interval = previousState[1].interval,
                          !.next_review_date = previousState[1].nextReview,
                          !.status = previousState[1].status,
                          !.lookup_count = max0(@ - 1),
                          !.is_target_word = IF previousState[1].isTarget # 0 THEN 1 ELSE 0,
                          !.target_order = NULL])
             ELSE table
        ELSE DeleteRow(table, key)

----------------------------------------------------------------------------
(* POST /api/bulk-action and POST /api/reset-word *)

(* Faulty variant of resetRow: the reset clears lookup_count as well *)
resetRowClearingCount(table, key, t) ==
    IF key \in DOMAIN table
    THEN PutRow(table, key,
             [table[key] EXCEPT
                 !.current_step = 0,
                 !.srs_interval = getIntervalInDays(0),
                 !.next_review_date = datetimeNow(t),
                 !.status = "learning",
                 !.lookup_count = 0,
                 !.is_target_word = 0,
                 !.target_order = NULL])
    ELSE table

(* UPDATE ... SET current_step = 0, ..., next_review_date = datetime('now'), ... *)
resetRow(table, key, t) ==
    IF key \in DOMAIN table
    THEN PutRow(table, key,
             [table[key] EXCEPT
                 !.current_step = 0,
                 !.srs_interval = getIntervalInDays(0),
                 !.next_review_date = datetimeNow(t),
                 !.status = "learning",
                 !.is_target_word = 0,
                 !.target_order = NULL])
    ELSE table

(* the body both handlers run for one word *)
resetWord(table, langCode, word, resetType, t) ==
    LET key == RowKey(langCode, cleanWord(word))
    IN  IF resetType = "delete"
        THEN DeleteRow(table, key)
        ELSE resetRow(table, key, t)

RECURSIVE bulkList(_, _, _, _, _)
bulkList(table, langCode, list, action, t) ==
    IF list = <<>>
    THEN table
    ELSE bulkList(resetWord(table, langCode, Head(list), action, t), langCode, Tail(list), action, t)

bulkAction(table, langCode, words, action, t, failAt) ==
    transaction(table, bulkList(table, langCode, Ran(words, failAt), action, t), failAt # 0)

----------------------------------------------------------------------------
(* GET /api/vocabulary-list *)

(* a < b on two stored date texts, as SQLite compares TEXT: byte by byte.  *)
(* Both layouts begin with the date 'YYYY-MM-DD'; then SQLite's layout has *)
(* a space where toISOString() has a 'T', and a space sorts before 'T', so *)
(* on one date the SQLite text comes first whatever the times are.  Two    *)
(* texts of one layout sort as their instants do.                          *)
TextLess(a, b) ==
    IF a.fmt = b.fmt
    THEN Earlier(a.at, b.at)
    ELSE IF a.at.day # b.at.day
         THEN a.at.day < b.at.day
         ELSE a.fmt = "sql"

(* one row of the response *)
vocabularyRow(table, key, t) ==
    [ word |-> key[2],
      interval |-> table[key].srs_interval,
      nextReview |-> table[key].next_review_date,
      status |-> table[key].status,
      step |-> table[key].current_step,
      isTarget |-> table[key].is_target_word = 1,
      targetOrder |-> table[key].target_order,
      isDue |-> SqlLeq(datetime(table[key].next_review_date), datetimeNow(t)) ]

(* SELECT ... WHERE language_code = ? ORDER BY next_review_date ASC: the   *)
(* responses the query can give; rows of equal text come in any order      *)
vocabularyList(table, langCode, t) ==
    LET keys == { k \in DOMAIN table : k[1] = langCode }
        n == Cardinality(keys)
        orders == { f \in [1..n -> keys] :
                      /\ \A i, j \in 1..n : i # j => f[i] # f[j]
                      /\ \A i, j \in 1..n :
                             i < j => ~TextLess(table[f[j]].next_review_date,
                                                table[f[i]].next_review_date) }
    IN  { [i \in 1..n |-> vocabularyRow(table, f[i], t)] : f \in orders }

----------------------------------------------------------------------------
(* POST /api/import-words *)

RECURSIVE maxOf(_)
maxOf(S) ==
    IF S = {}
    THEN -1
    ELSE LET x == CHOOSE y \in S : TRUE
             m == maxOf(S \ {x})
         IN  IF x > m THEN x ELSE m

(* Faulty variant of selectMaxOrder: the next order taken from the number  *)
(* of rows that hold one, COUNT(target_order) - 1, instead of from the     *)
(* greatest                                                                *)
selectMaxOrderByCount(table, langCode) ==
    Cardinality({ j \in DOMAIN table : j[1] = langCode /\ table[j].target_order # NULL }) - 1

(* SELECT COALESCE(MAX(target_order), -1) ... WHERE user_id = ? AND language_code = ? *)
selectMaxOrder(table, langCode) ==
    maxOf({ table[k].target_order[1] :
              k \in { j \in DOMAIN table : j[1] = langCode /\ table[j].target_order # NULL } })

importDate(t, makeTargetList, makeDueNow) ==
    IF makeDueNow
    THEN toISOString(AddMinutes(t, -10))
    ELSE IF makeTargetList
         THEN toISOString(AddDays(t, 365))
         ELSE toISOString(AddMinutes(t, 1))

(* Faulty variant of importUpsert: srs_interval reset with current_step *)
importUpsertResettingInterval(table, key, calculatedDate, targetFlag, order, isDue, t) ==
    IF key \notin DOMAIN table
    THEN PutRow(table, key,
             [ColumnDefaults(t) EXCEPT
                 !.current_step = 0,
                 !.srs_interval = getIntervalInDays(0),
                 !.next_review_date = calculatedDate,
                 !.status = "learning",
                 !.is_target_word = targetFlag,
                 !.target_order = order])
    ELSE PutRow(table, key,
             [table[key] EXCEPT
                 !.is_target_word = IF targetFlag = 1 THEN 1 ELSE @,
                 !.target_order = IF targetFlag = 1 /\ @ = NULL THEN order ELSE @,
                 !.next_review_date = IF isDue = 1 THEN calculatedDate ELSE @,
                 !.current_step = IF isDue = 1 THEN 0 ELSE @,
                 !.srs_interval = IF isDue = 1 THEN getIntervalInDays(0) ELSE @,
                 !.status = IF isDue = 1 THEN "learning" ELSE @])

(* Faulty variant of importUpsert: AND target_order IS NULL left out *)
importUpsertReassigning(table, key, calculatedDate, targetFlag, order, isDue, t) ==
    IF key \notin DOMAIN table
    THEN PutRow(table, key,
             [ColumnDefaults(t) EXCEPT
                 !.current_step = 0,
                 !.srs_interval = getIntervalInDays(0),
                 !.next_review_date = calculatedDate,
                 !.status = "learning",
                 !.is_target_word = targetFlag,
                 !.target_order = order])
    ELSE PutRow(table, key,
             [table[key] EXCEPT
                 !.is_target_word = IF targetFlag = 1 THEN 1 ELSE @,
                 !.target_order = IF targetFlag = 1 THEN order ELSE @,
                 !.next_review_date = IF isDue = 1 THEN calculatedDate ELSE @,
                 !.current_step = IF isDue = 1 THEN 0 ELSE @,
                 !.status = IF isDue = 1 THEN "learning" ELSE @])

(* stmt.run(...): INSERT ... ON CONFLICT DO UPDATE SET ... CASE WHEN ... *)
importUpsert(table, key, calculatedDate, targetFlag, order, isDue, t) ==
    IF key \notin DOMAIN table
    THEN PutRow(table, key,
             [ColumnDefaults(t) EXCEPT
                 !.current_step = 0,
                 !.srs_interval = getIntervalInDays(0),
                 !.next_review_date = calculatedDate,
                 !.status = "learning",
                 !.is_target_word = targetFlag,
                 !.target_order = order])
    ELSE PutRow(table, key,
             [table[key] EXCEPT
                 !.is_target_word = IF targetFlag = 1 THEN 1 ELSE @,
                 !.target_order = IF targetFlag = 1 /\ @ = NULL THEN order ELSE @,
                 !.next_review_date = IF isDue = 1 THEN calculatedDate ELSE @,
                 !.current_step = IF isDue = 1 THEN 0 ELSE @,
                 !.status = IF isDue = 1 THEN "learning" ELSE @])

(* list.forEach((w) => ...): currentOrder is the counter shared by the loop *)
RECURSIVE importList(_, _, _, _, _, _, _, _)
importList(table, langCode, list, currentOrder, calculatedDate, makeTargetList, makeDueNow, t) ==
    IF list = <<>>
    THEN table
    ELSE LET word == toLowerCase(trim(Head(list)))
         IN  IF word = <<>>
             THEN importList(table, langCode, Tail(list), currentOrder, calculatedDate,
                             makeTargetList, makeDueNow, t)
             ELSE importList(
                      importUpsert(table, RowKey(langCode, word), calculatedDate,
                                   IF makeTargetList THEN 1 ELSE 0,
                                   IF makeTargetList THEN Some(currentOrder) ELSE NULL,
                                   IF makeDueNow THEN 1 ELSE 0, t),
                      langCode, Tail(list),
                      IF makeTargetList THEN currentOrder + 1 ELSE currentOrder,
                      calculatedDate, makeTargetList, makeDueNow, t)

importWords(table, langCode, words, makeTargetList, makeDueNow, t, failAt) ==
    transaction(table,
                importList(table, langCode, Ran(words, failAt),
                           selectMaxOrder(table, langCode) + 1,
                           importDate(t, makeTargetList, makeDueNow),
                           makeTargetList, makeDueNow, t),
                failAt # 0)

----------------------------------------------------------------------------
(* POST /api/generate-passage *)

ReviewLimit == 60

FewReviews == 30

TargetLimitFew == 30

TargetLimitMany == 15

IntroductionBelow == 60

(* datetime(next_review_date) <= datetime('now') *)
isDueNow(row, t) == SqlLeq(datetime(row.next_review_date), datetimeNow(t))

(* the sets S becomes when n of its elements are left out *)
RECURSIVE Drops(_, _)
Drops(S, n) ==
    IF n = 0
    THEN { S }
    ELSE UNION { Drops(S \ {x}, n - 1) : x \in S }

(* SELECT word_text ... AND datetime(next_review_date) <= datetime('now')  *)
(* LIMIT 60: there is no ORDER BY, so which 60 of more due rows come back  *)
(* is not determined                                                       *)
reviewSelections(table, langCode, t) ==
    LET due == { k \in DOMAIN table : k[1] = langCode /\ isDueNow(table[k], t) }
    IN  IF Cardinality(due) <= ReviewLimit
        THEN { due }
        ELSE Drops(due, Cardinality(due) - ReviewLimit)

targetLimit(reviewLength) ==
    IF reviewLength < FewReviews THEN TargetLimitFew ELSE TargetLimitMany

(* a sorts before b under ORDER BY target_order ASC: NULL first *)
orderBefore(a, b) ==
    IF a = NULL THEN b # NULL
    ELSE b # NULL /\ a[1] < b[1]

(* the sequences that hold the keys of S in ascending target_order *)
RECURSIVE orderedByTargetOrder(_, _)
orderedByTargetOrder(table, S) ==
    IF S = {}
    THEN { <<>> }
    ELSE UNION { { <<k>> \o rest : rest \in orderedByTargetOrder(table, S \ {k}) } :
                 k \in { j \in S : \A i \in S :
                            ~orderBefore(table[i].target_order, table[j].target_order) } }

firstOf(list, limit) ==
    SubSeq(list, 1, IF Len(list) < limit THEN Len(list) ELSE limit)

(* SELECT word_text ... AND is_target_word = 1 AND                         *)
(* datetime(next_review_date) > datetime('now') ORDER BY target_order ASC  *)
(* LIMIT ?                                                                 *)
newWordLists(table, langCode, t, limit) ==
    { firstOf(list, limit) :
        list \in orderedByTargetOrder(table,
                    { k \in DOMAIN table :
                        /\ k[1] = langCode
                        /\ table[k].is_target_word = 1
                        /\ ~isDueNow(table[k], t) }) }

formulaInstruction(reviewLength) ==
    IF reviewLength < IntroductionBelow THEN "introduction" ELSE "reinforcement"

(* the glossary entries whose word, lower-cased, is one of the new words   *)
(* go into translation_cache                                               *)
cacheGlossary(cache, langCode, glossary, newWords) ==
    LET targetWordSet == { toLowerCase(newWords[i][2]) : i \in 1..Len(newWords) }
        kept == { w \in DOMAIN glossary : toLowerCase(w) \in targetWordSet }
    IN  [k \in DOMAIN cache \cup { RowKey(langCode, toLowerCase(w)) : w \in kept } |->
            IF \E w \in kept : RowKey(langCode, toLowerCase(w)) = k
            THEN glossary[CHOOSE w \in kept : RowKey(langCode, toLowerCase(w)) = k]
            ELSE cache[k]]

----------------------------------------------------------------------------
(* The requests *)

RECURSIVE SeqsUpTo(_, _)
SeqsUpTo(S, n) ==
    IF n = 0
    THEN { <<>> }
    ELSE LET shorter == SeqsUpTo(S, n - 1)
         IN  shorter \cup { Append(q, x) : q \in shorter, x \in S }

(* the word lists of the batch requests *)
WordLists == SeqsUpTo(WordInputs, MaxBatch) \ { <<>> }

ImportLists == SeqsUpTo(WordInputs \cup BlankInputs, MaxBatch) \ { <<>> }

(* what the provider's response carries as translatedText; "" is none *)
Translations == { "cat", "kitty" }

Unavailable == "Translation unavailable."

(* the words a glossary explains, and the glossaries *)
GlossaryWords == { <<"g">>, <<"P">> }

Glossaries ==
    UNION { [ws -> Translations] : ws \in SUBSET GlossaryWords }

KeysOf(langCode, list) ==
    { RowKey(langCode, cleanWord(list[i])) : i \in 1..Len(list) }

(* the row of a key as an optional value *)
RowOf(table, key) ==
    IF key \in DOMAIN table THEN Some(table[key]) ELSE Undefined

NoRequest ==
    [ op |-> "none", langCode |-> "", words |-> <<>>, action |-> "",
      makeTargetList |-> FALSE, makeDueNow |-> FALSE, failAt |-> 0,
      before |-> <<>>, at |-> Instant(0, 0),
      previousState |-> Undefined, origin |-> Undefined, direct |-> FALSE,
      response |-> Undefined, rows |-> <<>>, selection |-> Undefined ]

(* The clock at start *)
Epoch == Instant(0, 12 * 60 * MsPerMinute + StartFraction)

(* The database file outlives the process (CREATE TABLE IF NOT EXISTS): the *)
(* server starts on the tables an earlier run left.  That run looked a word *)
(* up, got its translation from the provider, and passed the word n times,  *)
(* each time at the instant it fell due, the last pass at the clock's start *)
(* value.                                                                   *)
RECURSIVE SeedStart(_, _)
SeedStart(t, n) ==
    IF n <= 1
    THEN t
    ELSE SeedStart(
             IF srsOf(n - 1).unit = "minute"
             THEN AddMinutes(t, 0 - srsOf(n - 1).interval)
             ELSE AddDays(t, 0 - srsOf(n - 1).interval),
             n - 1)

RECURSIVE SeedPasses(_, _, _, _)
SeedPasses(table, word, t, n) ==
    IF n = 0
    THEN table
    ELSE LET passed == passWord(table, "es", word, t)
         IN  SeedPasses(passed, word,
                        passed[RowKey("es", cleanWord(word))].next_review_date.at, n - 1)

SeedTable(n) ==
    SeedPasses(lookupUpsert(<<>>, RowKey("es", <<"g">>), SeedStart(Epoch, n)),
               <<"g">>, SeedStart(Epoch, n), n)

(* ... or went on to import its words as the target list *)
SeedTargetList ==
    importWords(SeedTable(3), "es", << <<"g">>, <<" ", "P">> >>, TRUE, FALSE, Epoch, 0)

SeedCache == (RowKey("es", <<"g">>) :> "cat")

(* The clock values the environment moves the clock to: a little later, or *)
(* around the instant a row falls due                                      *)
TickTargets ==
    { AddMs(now, SubSecond) } \cup
    { AddMs(db[k].next_review_date.at, d) : k \in DOMAIN db, d \in { 0 - SubSecond, 0, SubSecond } }

Init ==
    /\ \/ db = <<>> /\ translation_cache = <<>>
       \/ \E n \in 0..MaxSeedPasses : db = SeedTable(n) /\ translation_cache = SeedCache
       \/ db = SeedTargetList /\ translation_cache = SeedCache
    /\ now = Epoch
    /\ pending = <<>>
    /\ held = Undefined
    /\ last = NoRequest
    /\ events = 0

(* A lookup's response stays the direct predecessor of its undo as long as *)
(* no other request changes the row                                        *)
FollowOne(h, table) ==
    [h EXCEPT !.direct = @ /\ RowOf(table, RowKey(h.langCode, cleanWord(h.word)))
                              = RowOf(db, RowKey(h.langCode, cleanWord(h.word)))]

Follow(h, table) ==
    IF h = Undefined THEN h ELSE Some(FollowOne(h[1], table))

FollowAll(q, table) ==
    [i \in 1..Len(q) |-> FollowOne(q[i], table)]

Remove(q, i) ==
    SubSeq(q, 1, i - 1) \o SubSeq(q, i + 1, Len(q))

(* The single learner's client sends a request when the previous one is    *)
(* answered                                                                *)
Idle == last.op = "none"

Tick(t) ==
    /\ Earlier(now, t)
    /\ now' = t
    /\ events' = events + 1
    /\ UNCHANGED <<db, translation_cache, pending, held, last>>

PassWordsBatch(langCode, words, failAt) ==
    /\ db' = passWordsBatch(db, langCode, words, now, failAt)
    /\ held' = Follow(held, db')
    /\ pending' = FollowAll(pending, db')
    /\ last' = [NoRequest EXCEPT !.op = "pass-words-batch", !.langCode = langCode,
                                 !.words = words, !.failAt = failAt, !.before = db, !.at = now]
    /\ events' = events + 1
    /\ UNCHANGED <<translation_cache, now>>

(* POST /api/lookup-word up to its response (the translation is cached) or *)
(* up to its await                                                         *)
LookupWord(langCode, word) ==
    LET clean == cleanWord(word)
        key == RowKey(langCode, clean)
        previousState == selectPreviousState(db, key)
        request == [ langCode |-> langCode, word |-> word, previousState |-> previousState,
                     definition |-> "", origin |-> RowOf(db, key), direct |-> TRUE ]
        cached == key \in DOMAIN translation_cache
    IN  /\ db' = lookupUpsert(db, key, now)
        /\ held' = Follow(held, db')
        /\ IF cached
           THEN pending' = FollowAll(pending, db')
           ELSE /\ Len(pending) < MaxPending
                /\ pending' = Append(FollowAll(pending, db'), request)
        /\ last' = [NoRequest EXCEPT
                       !.op = "lookup-word", !.langCode = langCode,
                       !.words = <<word>>, !.before = db, !.at = now,
                       !.previousState = previousState,
                       !.response = IF cached
                                    THEN Some([request EXCEPT !.definition = translation_cache[key]])
                                    ELSE Undefined]
        /\ events' = events + 1
        /\ UNCHANGED <<translation_cache, now>>

(* Faulty variant of ProviderReply: the INSERT OR REPLACE into              *)
(* translation_cache runs whatever def holds, the sentinel included         *)
ProviderReplyCachingSentinel(i, text, threw) ==
    LET request == pending[i]
        key == RowKey(request.langCode, cleanWord(request.word))
        stored == ~threw /\ text # ""
        def == IF stored THEN text ELSE Unavailable
    IN  /\ translation_cache' = PutRow(translation_cache, key, def)
        /\ pending' = Remove(pending, i)
        /\ last' = [NoRequest EXCEPT
                       !.op = "lookup-word-reply", !.langCode = request.langCode,
                       !.words = <<request.word>>, !.before = db, !.at = now,
                       !.previousState = request.previousState,
                       !.failAt = IF threw THEN 1 ELSE 0,
                       !.response = Some([request EXCEPT !.definition = def])]
        /\ UNCHANGED <<db, now, held, events>>

(* POST /api/lookup-word from the end of await axios.get to the response:  *)
(* the provider answered with translatedText text ("" is none), or the     *)
(* call threw: an error or the timeout                                     *)
ProviderReply(i, text, threw) ==
    LET request == pending[i]
        key == RowKey(request.langCode, cleanWord(request.word))
        stored == ~threw /\ text # ""
        def == IF stored THEN text ELSE Unavailable
    IN  /\ translation_cache' = IF stored THEN PutRow(translation_cache, key, def)
                                ELSE translation_cache
        /\ pending' = Remove(pending, i)
        /\ last' = [NoRequest EXCEPT
                       !.op = "lookup-word-reply", !.langCode = request.langCode,
                       !.words = <<request.word>>, !.before = db, !.at = now,
                       !.previousState = request.previousState,
                       !.failAt = IF threw THEN 1 ELSE 0,
                       !.response = Some([request EXCEPT !.definition = def])]
        /\ UNCHANGED <<db, now, held, events>>

UndoLookup ==
    /\ held # Undefined
    /\ db' = undoLookup(db, held[1].langCode, held[1].word, held[1].previousState)
    /\ held' = Some([held[1] EXCEPT !.direct = FALSE])
    /\ pending' = FollowAll(pending, db')
    /\ last' = [NoRequest EXCEPT !.op = "undo-lookup", !.langCode = held[1].langCode,
                                 !.words = <<held[1].word>>, !.before = db, !.at = now,
                                 !.previousState = held[1].previousState,
                                 !.origin = held[1].origin, !.direct = held[1].direct]
    /\ events' = events + 1
    /\ UNCHANGED <<translation_cache, now>>

BulkAction(langCode, words, action, failAt) ==
    /\ db' = bulkAction(db, langCode, words, action, now, failAt)
    /\ held' = Follow(held, db')
    /\ pending' = FollowAll(pending, db')
    /\ last' = [NoRequest EXCEPT !.op = "bulk-action", !.langCode = langCode,
                                 !.words = words, !.action = action, !.failAt = failAt,
                                 !.before = db, !.at = now]
    /\ events' = events + 1
    /\ UNCHANGED <<translation_cache, now>>

ResetWord(langCode, word, resetType) ==
    /\ db' = resetWord(db, langCode, word, resetType, now)
    /\ held' = Follow(held, db')
    /\ pending' = FollowAll(pending, db')
    /\ last' = [NoRequest EXCEPT !.op = "reset-word", !.langCode = langCode,
                                 !.words = <<word>>, !.action = resetType,
                                 !.before = db, !.at = now]
    /\ events' = events + 1
    /\ UNCHANGED <<translation_cache, now>>

ImportWords(langCode, words, makeTargetList, makeDueNow, failAt) ==
    /\ db' = importWords(db, langCode, words, makeTargetList, makeDueNow, now, failAt)
    /\ held' = Follow(held, db')
    /\ pending' = FollowAll(pending, db')
    /\ last' = [NoRequest EXCEPT !.op = "import-words", !.langCode = langCode,
                                 !.words = words, !.makeTargetList = makeTargetList,
                                 !.makeDueNow = makeDueNow, !.failAt = failAt,
                                 !.before = db, !.at = now]
    /\ events' = events + 1
    /\ UNCHANGED <<translation_cache, now>>

(* GET /api/vocabulary-list: reads only *)
GetVocabularyList(langCode) ==
    /\ \E rows \in vocabularyList(db, langCode, now) :
           last' = [NoRequest EXCEPT !.op = "vocabulary-list", !.langCode = langCode,
                                     !.before = db, !.at = now, !.rows = rows]
    /\ UNCHANGED <<db, translation_cache, now, pending, held, events>>

(* POST /api/generate-passage up to its await: the two selections and the *)
(* instruction that go into the prompt (GEMINI_API_KEY is set; without it  *)
(* the handler answers 500 before it reads anything)                       *)
GeneratePassage(langCode) ==
    /\ \E review \in reviewSelections(db, langCode, now) :
           \E newWords \in newWordLists(db, langCode, now, targetLimit(Cardinality(review))) :
               last' = [NoRequest EXCEPT
                           !.op = "generate-passage", !.langCode = langCode,
                           !.before = db, !.at = now,
                           !.selection = Some([ review |-> review, newWords |-> newWords,
                                                formulaInstruction |->
                                                    formulaInstruction(Cardinality(review)) ])]
    /\ UNCHANGED <<db, translation_cache, now, pending, held, events>>

(* POST /api/generate-passage from the end of its await: the model's       *)
(* answer parsed to a passage and a glossary, or an error thrown (the      *)
(* call failed, the text is not JSON, the passage is missing)              *)
PassageReply(glossary, threw) ==
    /\ last.op = "generate-passage"
    /\ translation_cache' =
           IF threw THEN translation_cache
           ELSE cacheGlossary(translation_cache, last.langCode, glossary,
                              last.selection[1].newWords)
    /\ last' = [last EXCEPT !.op = "generate-passage-reply",
                            !.failAt = IF threw THEN 1 ELSE 0]
    /\ UNCHANGED <<db, now, pending, held, events>>

(* res.json(...): the handler is done; a lookup's response reaches the client *)
Return ==
    /\ last.op # "none"
    /\ held' = IF last.response # Undefined THEN last.response ELSE held
    /\ last' = NoRequest
    /\ UNCHANGED <<db, translation_cache, now, pending, events>>

Ready == Idle /\ events < MaxEvents

Next ==
    \/ \E t \in TickTargets : Ready /\ Tick(t)
    \/ \E l \in LangCodes, ws \in WordLists, f \in 0..MaxBatch :
           Ready /\ f <= Len(ws) /\ PassWordsBatch(l, ws, f)
    \/ \E l \in LangCodes, w \in WordInputs : Ready /\ LookupWord(l, w)
    \/ \E i \in 1..Len(pending), text \in Translations \cup { "" }, threw \in BOOLEAN :
           Idle /\ (threw => text = "") /\ ProviderReply(i, text, threw)
    \/ Ready /\ UndoLookup
    \/ \E l \in LangCodes, ws \in WordLists, a \in { "delete", "reset" }, f \in 0..MaxBatch :
           Ready /\ f <= Len(ws) /\ BulkAction(l, ws, a, f)
    \/ \E l \in LangCodes, w \in WordInputs, a \in { "delete", "reset" } :
           Ready /\ ResetWord(l, w, a)
    \/ \E l \in LangCodes, ws \in ImportLists, tl \in BOOLEAN, dn \in BOOLEAN, f \in 0..MaxBatch :
           Ready /\ f <= Len(ws) /\ ImportWords(l, ws, tl, dn, f)
    \/ \E l \in LangCodes : Idle /\ GetVocabularyList(l)
    \/ Return

Spec == Init /\ [][Next]_vars

(* The server as the passage generator sees it: word lists are imported,   *)
(* time passes, passages are asked for.  The client waits for the passage  *)
(* before its next request.                                                *)
PassageNext ==
    \/ \E t \in TickTargets : Ready /\ Tick(t)
    \/ \E l \in LangCodes, ws \in ImportLists, tl \in BOOLEAN, dn \in BOOLEAN, f \in 0..MaxBatch :
           Ready /\ f <= Len(ws) /\ ImportWords(l, ws, tl, dn, f)
    \/ \E l \in LangCodes : Idle /\ GeneratePassage(l)
    \/ \E g \in Glossaries, threw \in BOOLEAN : (threw => g = <<>>) /\ PassageReply(g, threw)
    \/ last.op # "generate-passage" /\ Return

PassageSpec == Init /\ [][PassageNext]_vars

----------------------------------------------------------------------------
(* The properties.  Each is stated on the state a handler leaves, where    *)
(* last holds the request, the table before it (last.before) and the clock *)
(* value it read (last.at).                                                *)

LastKey == RowKey(last.langCode, cleanWord(last.words[1]))

LastKeys == KeysOf(last.langCode, last.words)

Passed == last.op = "pass-words-batch" /\ last.failAt = 0

(* "due" as the data model states it: nextReviewAt <= the reference time *)
DueAt(row, t) == NotLater(row.next_review_date.at, t)

(* C1: LookupWord followed directly by UndoLookup with the previousState   *)
(* that lookup returned leaves an entry that existed before the lookup     *)
(* equal to its pre-lookup state in every field.                           *)
C1_UndoRestoresEveryField ==
    (last.op = "undo-lookup" /\ last.direct /\ last.origin # Undefined)
        => RowOf(db, LastKey) = last.origin

(* C2: in every reachable state every stored entry has status = learned    *)
(* exactly when its step is at least 6.                                    *)
C2_LearnedIffStepAtLeastSix ==
    \A k \in DOMAIN db : (db[k].status = "learned") <=> (db[k].current_step >= 6)

(* an undo has put back a learned entry that the lookup had made learning *)
C2_Witness ==
    /\ last.op = "undo-lookup"
    /\ LastKey \in DOMAIN db
    /\ db[LastKey].status = "learned"
    /\ last.before[LastKey].status = "learning"

(* C3: when a statement of a PassWordsBatch, BulkAction or ImportWords     *)
(* batch throws, every entry of the table is as it was before the batch.   *)
C3_FailedBatchChangesNothing ==
    (last.op \in { "pass-words-batch", "bulk-action", "import-words" } /\ last.failAt # 0)
        => db = last.before

(* a pass batch whose second word threw after its first word had been written *)
C3_Witness ==
    /\ last.op = "pass-words-batch"
    /\ last.failAt = 2
    /\ passWord(last.before, last.langCode, last.words[1], last.at) # last.before
    /\ db = last.before

(* a property read of a response object: a property it lacks reads as      *)
(* undefined, which the caller cannot tell from null                       *)
Field(obj, name) == IF name \in DOMAIN obj THEN obj[name] ELSE NULL

(* What a lookup does to the stored entry, and the five columns its        *)
(* response carries: step 0, learning, next_review_date the lookup's       *)
(* datetime('now') and so due, not a target, target_order NULL,            *)
(* lookup_count one more than before (1 for a new entry); previousState    *)
(* holds step, interval, nextReview, status and isTarget of the entry as   *)
(* it was (undefined when there was none).                                 *)
LookupResets ==
    last.op = "lookup-word" =>
        /\ LastKey \in DOMAIN db
        /\ db[LastKey].current_step = 0
        /\ db[LastKey].status = "learning"
        /\ db[LastKey].next_review_date = datetimeNow(last.at)
        /\ DueAt(db[LastKey], last.at)
        /\ db[LastKey].is_target_word = 0
        /\ db[LastKey].target_order = NULL
        /\ db[LastKey].lookup_count =
               IF LastKey \in DOMAIN last.before THEN last.before[LastKey].lookup_count + 1 ELSE 1
        /\ last.previousState =
               IF LastKey \in DOMAIN last.before
               THEN Some([ step |-> last.before[LastKey].current_step,
                           interval |-> last.before[LastKey].srs_interval,
                           nextReview |-> last.before[LastKey].next_review_date,
                           status |-> last.before[LastKey].status,
                           isTarget |-> last.before[LastKey].is_target_word ])
               ELSE Undefined
        /\ last.response # Undefined => last.response[1].previousState = last.previousState

(* C4: a lookup resets the entry as above and returns the state the entry  *)
(* had before the lookup (undefined when there was none): every field the  *)
(* lookup overwrote can be read from the returned previousState, the       *)
(* target_order among them.                                                *)
C4_LookupReturnsPriorState ==
    /\ LookupResets
    /\ (last.op = "lookup-word" /\ LastKey \in DOMAIN last.before) =>
           /\ last.previousState # Undefined
           /\ Field(last.previousState[1], "step") = last.before[LastKey].current_step
           /\ Field(last.previousState[1], "interval") = last.before[LastKey].srs_interval
           /\ Field(last.previousState[1], "nextReview") = last.before[LastKey].next_review_date
           /\ Field(last.previousState[1], "status") = last.before[LastKey].status
           /\ Field(last.previousState[1], "isTarget") = last.before[LastKey].is_target_word
           /\ Field(last.previousState[1], "targetOrder") = last.before[LastKey].target_order

(* C5: a pass of a present, due, non-target entry at step k leaves it at   *)
(* step min(k+1, 8), with srs_interval and next_review_date those of the   *)
(* new step and the batch's txTime, status learned exactly when the new    *)
(* step is at least 6, and successful_reads one more.                      *)
C5_PassAdvancesDueEntry ==
    Passed =>
        \A k \in LastKeys \cap DOMAIN last.before :
            (last.before[k].is_target_word = 0 /\ DueAt(last.before[k], last.at)) =>
                LET step == IF last.before[k].current_step < 8
                            THEN last.before[k].current_step + 1 ELSE 8
                IN  /\ db[k].current_step = step
                    /\ db[k].srs_interval = getIntervalInDays(step)
                    /\ db[k].next_review_date = getNextReviewDate(step, last.at)
                    /\ (db[k].status = "learned") <=> (step >= 6)
                    /\ db[k].status \in { "learned", "learning" }
                    /\ db[k].successful_reads = last.before[k].successful_reads + 1

(* a pass of a due, non-target entry that was at step 8 already *)
C5_Witness ==
    /\ Passed
    /\ \E k \in LastKeys \cap DOMAIN last.before :
           /\ last.before[k].is_target_word = 0
           /\ DueAt(last.before[k], last.at)
           /\ last.before[k].current_step = 8

(* C6: a pass of a present target entry leaves it at step 8, learned, not  *)
(* a target, target_order NULL, whatever its step was and due or not.      *)
C6_PassMastersTarget ==
    Passed =>
        \A k \in LastKeys \cap DOMAIN last.before :
            last.before[k].is_target_word = 1 =>
                /\ db[k].current_step = 8
                /\ db[k].status = "learned"
                /\ db[k].is_target_word = 0
                /\ db[k].target_order = NULL

(* a pass of a target word imported and never read: step 0, not due *)
C6_Witness ==
    /\ Passed
    /\ \E k \in LastKeys \cap DOMAIN last.before :
           /\ last.before[k].is_target_word = 1
           /\ last.before[k].current_step = 0
           /\ last.before[k].successful_reads = 0
           /\ ~DueAt(last.before[k], last.at)
           /\ db[k].current_step = 8

(* C7: a pass of a present entry that is not a target and whose            *)
(* next_review_date is later than the batch's txTime changes no field.     *)
C7_PassLeavesUndueEntry ==
    Passed =>
        \A k \in LastKeys \cap DOMAIN last.before :
            (last.before[k].is_target_word = 0 /\ ~DueAt(last.before[k], last.at)) =>
                db[k] = last.before[k]

(* C8: a pass of a word that has no entry creates one at step 8, learned,  *)
(* successful_reads 1, not a target.                                       *)
C8_PassCreatesMastered ==
    Passed =>
        \A k \in LastKeys \ DOMAIN last.before :
            /\ k \in DOMAIN db
            /\ db[k].current_step = 8
            /\ db[k].status = "learned"
            /\ db[k].successful_reads = 1
            /\ db[k].is_target_word = 0

(* a pass batch naming a word that had no entry *)
C8_Witness ==
    /\ Passed
    /\ LastKeys \ DOMAIN last.before # {}
    /\ DOMAIN last.before # {}

(* the keys an import batch writes: its words that are not blank *)
ImportedKeys ==
    { RowKey(last.langCode, toLowerCase(trim(last.words[i]))) :
          i \in { j \in 1..Len(last.words) : trim(last.words[j]) # <<>> } }

FirstAt(k) ==
    CHOOSE i \in 1..Len(last.words) :
        /\ RowKey(last.langCode, toLowerCase(trim(last.words[i]))) = k
        /\ \A j \in 1..(i - 1) : RowKey(last.langCode, toLowerCase(trim(last.words[j]))) # k

(* the keys the batch gives a target_order: those that held none *)
NewlyOrdered ==
    { k \in ImportedKeys : k \notin DOMAIN last.before \/ last.before[k].target_order = NULL }

(* C9: an import with makeTargetList leaves every target_order that        *)
(* existed as it was; the values it assigns are each greater than every    *)
(* target_order the language held before, and increase strictly in batch   *)
(* order; a word named again later in the batch keeps the value its first  *)
(* occurrence got.                                                         *)
C9_ImportOrdersIncrease ==
    (last.op = "import-words" /\ last.makeTargetList /\ last.failAt = 0) =>
        /\ \A k \in DOMAIN last.before :
               last.before[k].target_order # NULL =>
                   k \in DOMAIN db /\ db[k].target_order = last.before[k].target_order
        /\ \A k \in NewlyOrdered :
               /\ db[k].target_order # NULL
               /\ \A j \in DOMAIN last.before :
                      (j[1] = last.langCode /\ last.before[j].target_order # NULL) =>
                          db[k].target_order[1] > last.before[j].target_order[1]
               /\ db[k].target_order =
                      importWords(last.before, last.langCode, SubSeq(last.words, 1, FirstAt(k)),
                                  TRUE, last.makeDueNow, last.at, 0)[k].target_order
        /\ \A k1, k2 \in NewlyOrdered :
               FirstAt(k1) < FirstAt(k2) => db[k1].target_order[1] < db[k2].target_order[1]

(* an import that gave two words of one batch their target_order *)
C9_Witness ==
    /\ last.op = "import-words" /\ last.makeTargetList /\ last.failAt = 0
    /\ Cardinality(NewlyOrdered) = 2
    /\ DOMAIN last.before # {}

(* C10: an undo with no previousState removes the entry; so a lookup of a  *)
(* word never seen, undone with the previousState it returned, leaves no   *)
(* entry for the word.                                                     *)
C10_UndoOfCreationDeletes ==
    (last.op = "undo-lookup" /\ last.previousState = Undefined) => LastKey \notin DOMAIN db

(* the undo that directly follows the lookup that created the entry *)
C10_Witness ==
    /\ last.op = "undo-lookup"
    /\ last.previousState = Undefined
    /\ last.direct
    /\ last.origin = Undefined
    /\ LastKey \in DOMAIN last.before
    /\ LastKey \notin DOMAIN db

(* the lookups whose response the client holds or the provider call of     *)
(* which is still awaited, with no later change of the row they wrote      *)
FreshLookups ==
    { h \in (IF held = Undefined THEN {} ELSE { held[1] }) \cup { pending[i] : i \in 1..Len(pending) } :
        h.direct }

FreshKeys == { RowKey(h.langCode, cleanWord(h.word)) : h \in FreshLookups }

(* C11: when the next request that touches a looked-up word's row is a     *)
(* pass (its txTime is not earlier than the lookup's clock reading, the    *)
(* clock being monotonic), the pass leaves the row at step 1, learning,    *)
(* successful_reads one more than before, lookup_count as the lookup left  *)
(* it.                                                                     *)
C11_PassAfterLookupAdvances ==
    [][ (last'.op = "pass-words-batch" /\ last'.failAt = 0 /\ last.op = "none")
            => \A k \in FreshKeys \cap KeysOf(last'.langCode, last'.words) :
                   /\ k \in DOMAIN db /\ k \in DOMAIN db'
                   /\ db'[k].current_step = 1
                   /\ db'[k].status = "learning"
                   /\ db'[k].successful_reads = db[k].successful_reads + 1
                   /\ db'[k].lookup_count = db[k].lookup_count ]_vars

(* a never-seen word was looked up, and then passed: step 1, lookup_count  *)
(* 1, successful_reads 1                                                   *)
C11_Witness ==
    /\ Passed
    /\ held # Undefined
    /\ held[1].origin = Undefined
    /\ RowKey(held[1].langCode, cleanWord(held[1].word)) = LastKey
    /\ LastKey \in DOMAIN last.before
    /\ last.before[LastKey].current_step = 0
    /\ last.before[LastKey].lookup_count = 1
    /\ last.before[LastKey].successful_reads = 0
    /\ db[LastKey].current_step = 1
    /\ db[LastKey].lookup_count = 1
    /\ db[LastKey].successful_reads = 1

(* a batch of two words that clean to the same word_text *)
SameWordTwice ==
    /\ Len(last.words) = 2
    /\ cleanWord(last.words[1]) = cleanWord(last.words[2])

min8(n) == IF n < 8 THEN n ELSE 8

(* C12: a pass batch naming one word twice ends in the state that two      *)
(* batches of that one word with the same txTime, one after the other,     *)
(* end in; a row that was due and not a target at step k ends at step      *)
(* min(k+1, 8) and a word without a row at step 8, successful_reads        *)
(* counted once in both cases.                                             *)
C12_SecondOccurrenceSeesFirst ==
    (Passed /\ SameWordTwice) =>
        /\ db = passWordsBatch(
                    passWordsBatch(last.before, last.langCode, <<last.words[1]>>, last.at, 0),
                    last.langCode, <<last.words[2]>>, last.at, 0)
        /\ LastKey \notin DOMAIN last.before =>
               /\ db[LastKey].current_step = 8
               /\ db[LastKey].successful_reads = 1
        /\ (/\ LastKey \in DOMAIN last.before
            /\ last.before[LastKey].is_target_word = 0
            /\ DueAt(last.before[LastKey], last.at)) =>
               /\ db[LastKey].current_step = min8(last.before[LastKey].current_step + 1)
               /\ db[LastKey].successful_reads = last.before[LastKey].successful_reads + 1

(* a due row below step 8 that is not a target, passed twice in one batch *)
C12_Witness ==
    /\ Passed /\ SameWordTwice
    /\ LastKey \in DOMAIN last.before
    /\ last.before[LastKey].is_target_word = 0
    /\ DueAt(last.before[LastKey], last.at)
    /\ last.before[LastKey].current_step \in 1..6
    /\ db[LastKey].current_step = last.before[LastKey].current_step + 1

(* the word lists that hold the words of the request in another order *)
Reorderings(ws) ==
    { [i \in 1..Len(ws) |-> ws[f[i]]] : f \in Permutations(1..Len(ws)) }

PairwiseDistinct(ws) ==
    \A i, j \in 1..Len(ws) : i # j => cleanWord(ws[i]) # cleanWord(ws[j])

(* the table the batch request of last would have left, had it carried     *)
(* the word list ws                                                        *)
BatchWith(ws) ==
    CASE last.op = "pass-words-batch" ->
             passWordsBatch(last.before, last.langCode, ws, last.at, 0)
      [] last.op = "bulk-action" ->
             bulkAction(last.before, last.langCode, ws, last.action, last.at, 0)
      [] last.op = "import-words" ->
             importWords(last.before, last.langCode, ws, last.makeTargetList,
                         last.makeDueNow, last.at, 0)

Batched ==
    /\ last.op \in { "pass-words-batch", "bulk-action", "import-words" }
    /\ last.failAt = 0
    /\ PairwiseDistinct(last.words)

(* C13 as claimed: a batch of pairwise distinct words leaves the same      *)
(* table, target_order included, whatever the order of its word list.      *)
C13_AnyOrderSameState ==
    Batched => \A ws \in Reorderings(last.words) : BatchWith(ws) = db

(* C13 amended: the same, except for the target_order an import with       *)
(* makeTargetList assigns to the words that held none: these follow the    *)
(* order of the list.                                                      *)
C13_AnyOrderSameStateButNewOrders ==
    Batched =>
        \A ws \in Reorderings(last.words) :
            /\ DOMAIN BatchWith(ws) = DOMAIN db
            /\ \A k \in DOMAIN db :
                   IF last.op = "import-words" /\ last.makeTargetList /\ k \in NewlyOrdered
                   THEN [BatchWith(ws)[k] EXCEPT !.target_order = NULL]
                            = [db[k] EXCEPT !.target_order = NULL]
                   ELSE BatchWith(ws)[k] = db[k]

(* an import that made two words targets, where the list in the other     *)
(* order gives them other target_order values and nothing else differs     *)
C13_Witness ==
    /\ Batched
    /\ last.op = "import-words" /\ last.makeTargetList
    /\ Cardinality(NewlyOrdered) = 2
    /\ \E ws \in Reorderings(last.words) : BatchWith(ws) # db

(* a pass or bulk batch of two distinct words that changed both rows *)
BatchChangedTwoRows ==
    /\ Batched
    /\ last.op # "import-words"
    /\ Len(last.words) = 2
    /\ \A k \in LastKeys : RowOf(db, k) # RowOf(last.before, k)

(* C14: once a lookup of a word has got a translation from the provider    *)
(* (and cached it), no other lookup of that word gets one from the         *)
(* provider: a provider call that returns a translation finds no           *)
(* translation of its word in the cache.                                   *)
C14_ProviderAnswersOncePerWord ==
    [][ (/\ last.op = "none"
         /\ last'.op = "lookup-word-reply"
         /\ last'.failAt = 0
         /\ last'.response[1].definition # Unavailable)
            => RowKey(last'.langCode, cleanWord(last'.words[1])) \notin DOMAIN translation_cache ]_vars

(* C15: the vocabulary list holds the language's entries in ascending      *)
(* order of the instants of their next_review_date, whichever operation    *)
(* wrote the text, and isDue is true of exactly the entries whose          *)
(* next_review_date is not later than the clock.                           *)
C15_ListAscendingInTime ==
    last.op = "vocabulary-list" =>
        /\ { last.rows[i].word : i \in 1..Len(last.rows) }
               = { k[2] : k \in { j \in DOMAIN db : j[1] = last.langCode } }
        /\ \A i, j \in 1..Len(last.rows) :
               i < j => NotLater(last.rows[i].nextReview.at, last.rows[j].nextReview.at)
        /\ \A i \in 1..Len(last.rows) :
               last.rows[i].isDue <=> NotLater(last.rows[i].nextReview.at, last.at)

(* the part of C15 about the order alone *)
ListAscendingInTime ==
    last.op = "vocabulary-list" =>
        \A i, j \in 1..Len(last.rows) :
            i < j => NotLater(last.rows[i].nextReview.at, last.rows[j].nextReview.at)

(* the lists that hold the first n of the language's target entries in     *)
(* ascending target_order                                                  *)
FirstTargets(table, langCode, n) ==
    { firstOf(list, n) :
        list \in orderedByTargetOrder(table,
                    { k \in DOMAIN table : k[1] = langCode /\ table[k].is_target_word = 1 }) }

(* C16: generate-passage selects as review words at most 60 entries that   *)
(* are due, as new words the first N target entries in ascending           *)
(* target_order, N being 30 when fewer than 30 review words were selected  *)
(* and 15 otherwise, and the instruction is the introduction one when      *)
(* fewer than 60 review words were selected, the reinforcement one         *)
(* otherwise.                                                              *)
C16_PassageSelection ==
    last.op = "generate-passage" =>
        LET review == last.selection[1].review
            N == IF Cardinality(review) < 30 THEN 30 ELSE 15
        IN  /\ Cardinality(review) <= 60
            /\ \A k \in review :
                   k \in DOMAIN db /\ k[1] = last.langCode /\ DueAt(db[k], last.at)
            /\ last.selection[1].newWords \in FirstTargets(db, last.langCode, N)
            /\ last.selection[1].formulaInstruction =
                   IF Cardinality(review) < 60 THEN "introduction" ELSE "reinforcement"

(* the part of C16 about the new words alone *)
NewWordsAreFirstTargets ==
    last.op = "generate-passage" =>
        last.selection[1].newWords
            \in FirstTargets(db, last.langCode,
                             IF Cardinality(last.selection[1].review) < 30 THEN 30 ELSE 15)

(* a passage was asked for while a target entry was due by ten minutes:    *)
(* the entry is a review word and not a new word                           *)
DueTargetLeftOut ==
    /\ last.op = "generate-passage"
    /\ \E k \in DOMAIN db :
           /\ db[k].is_target_word = 1
           /\ db[k].next_review_date.at = AddMinutes(last.at, -10)
           /\ k \in last.selection[1].review
           /\ \A i \in 1..Len(last.selection[1].newWords) : last.selection[1].newWords[i] # k

(* C17: right after an import with makeTargetList and without makeDueNow   *)
(* every imported word, whether it had an entry before or not and whether  *)
(* that entry was due or not, is a target and is not due.  (The claim goes *)
(* on: and stays so until it is passed or looked up; this is the state the *)
(* import itself must leave.)                                              *)
C17_ImportedTargetsNotDue ==
    (/\ last.op = "import-words"
     /\ last.makeTargetList /\ ~last.makeDueNow
     /\ last.failAt = 0) =>
        \A k \in ImportedKeys :
            /\ k \in DOMAIN db
            /\ db[k].is_target_word = 1
            /\ ~DueAt(db[k], last.at)

(* the same for the words that had no entry before the import *)
NewTargetsNotDue ==
    (/\ last.op = "import-words"
     /\ last.makeTargetList /\ ~last.makeDueNow
     /\ last.failAt = 0) =>
        \A k \in ImportedKeys \ DOMAIN last.before :
            /\ k \in DOMAIN db
            /\ db[k].is_target_word = 1
            /\ ~DueAt(db[k], last.at)

(* the requests that act on user_vocabulary_progress, completed *)
Wrote ==
    /\ last.op \in { "lookup-word", "pass-words-batch", "undo-lookup", "reset-word",
                     "bulk-action", "import-words" }
    /\ last.failAt = 0

(* C18 as claimed: no operation on an entry that existed and stays in the  *)
(* store lowers its lookup_count, undo-lookup included.                    *)
C18_LookupCountNeverDecreases ==
    Wrote =>
        \A k \in DOMAIN last.before \cap DOMAIN db :
            db[k].lookup_count >= last.before[k].lookup_count

(* C18 amended: no operation other than undo-lookup lowers the             *)
(* lookup_count of an entry that stays in the store; undo-lookup with a    *)
(* previousState lowers the lookup_count of its word by one, not below 0,  *)
(* and leaves that of every other entry.                                   *)
C18_LookupCountDecreasesOnlyByUndo ==
    Wrote =>
        \A k \in DOMAIN last.before \cap DOMAIN db :
            IF last.op = "undo-lookup" /\ k = LastKey
            THEN db[k].lookup_count = max0(last.before[k].lookup_count - 1)
            ELSE db[k].lookup_count >= last.before[k].lookup_count

(* an undo-lookup took the lookup_count of an entry from 2 to 1 *)
C18_Witness ==
    /\ last.op = "undo-lookup"
    /\ LastKey \in DOMAIN last.before \cap DOMAIN db
    /\ last.before[LastKey].lookup_count = 2
    /\ db[LastKey].lookup_count = 1

(* C19: in every reachable state the srs_interval of every stored entry is *)
(* the interval in days of the current_step stored with it.                *)
C19_IntervalFollowsStep ==
    \A k \in DOMAIN db : db[k].srs_interval = getIntervalInDays(db[k].current_step)

(* the same after every request but an import with makeDueNow *)
IntervalFollowsStepButImportDue ==
    Wrote /\ (\A k \in DOMAIN last.before :
         last.before[k].srs_interval = getIntervalInDays(last.before[k].current_step))
    /\ ~(last.op = "import-words" /\ last.makeDueNow)
        => \A k \in DOMAIN db : db[k].srs_interval = getIntervalInDays(db[k].current_step)

(* C20: an import changes, in an entry that existed, only the columns its  *)
(* options govern: without makeDueNow current_step, status and             *)
(* next_review_date stay, without makeTargetList is_target_word and        *)
(* target_order stay, and lookup_count, successful_reads and srs_interval  *)
(* stay in every case; an entry the list does not name stays as it was,    *)
(* and a word that is empty once trimmed creates no entry.                 *)
C20_ImportTouchesOnlyItsFields ==
    (last.op = "import-words" /\ last.failAt = 0) =>
        /\ DOMAIN db = DOMAIN last.before \cup ImportedKeys
        /\ RowKey(last.langCode, <<>>) \notin DOMAIN db
        /\ \A k \in DOMAIN last.before :
               /\ k \notin ImportedKeys => db[k] = last.before[k]
               /\ ~last.makeDueNow =>
                      /\ db[k].current_step = last.before[k].current_step
                      /\ db[k].status = last.before[k].status
                      /\ db[k].next_review_date = last.before[k].next_review_date
               /\ ~last.makeTargetList =>
                      /\ db[k].is_target_word = last.before[k].is_target_word
                      /\ db[k].target_order = last.before[k].target_order
               /\ db[k].lookup_count = last.before[k].lookup_count
               /\ db[k].successful_reads = last.before[k].successful_reads
               /\ db[k].srs_interval = last.before[k].srs_interval

(* an import with makeDueNow of a list with a blank word and a word whose  *)
(* entry was past step 0 and had been read and looked up                   *)
C20_Witness ==
    /\ last.op = "import-words" /\ last.failAt = 0
    /\ last.makeDueNow
    /\ \E i \in 1..Len(last.words) : trim(last.words[i]) = <<>>
    /\ \E k \in ImportedKeys \cap DOMAIN last.before :
           /\ last.before[k].current_step > 0
           /\ last.before[k].successful_reads > 0
           /\ last.before[k].lookup_count > 0
           /\ db[k].current_step = 0

(* the five columns a lookup returns of the entry it found *)
StateBefore(origin) ==
    IF origin = Undefined
    THEN Undefined
    ELSE Some([ step |-> origin[1].current_step,
                interval |-> origin[1].srs_interval,
                nextReview |-> origin[1].next_review_date,
                status |-> origin[1].status,
                isTarget |-> origin[1].is_target_word ])

(* C21: when the provider call of a lookup throws (an error, the timeout)  *)
(* or returns no translatedText, the request is answered with the          *)
(* definition "Translation unavailable." and the previousState the lookup  *)
(* read; the reply writes nothing to the vocabulary table, so the entry,   *)
(* unless another request changed it meanwhile, is as the lookup left it:  *)
(* step 0, due, lookup_count one more than before (1 for a new entry); the *)
(* translation cache is unchanged and holds the sentinel for no word; and  *)
(* a lookup of a word the cache does not hold calls the provider.          *)
C21_FailedProviderDegrades ==
    [][ /\ \A i \in 1..Len(pending), threw \in BOOLEAN :
               ProviderReply(i, "", threw) =>
                   LET request == pending[i]
                       key == RowKey(request.langCode, cleanWord(request.word))
                   IN  /\ last'.response # Undefined
                       /\ last'.response[1].definition = Unavailable
                       /\ last'.response[1].previousState = StateBefore(request.origin)
                       /\ db' = db
                       /\ request.direct =>
                              /\ key \in DOMAIN db'
                              /\ db'[key].current_step = 0
                              /\ DueAt(db'[key], now')
                              /\ db'[key].lookup_count =
                                     IF request.origin = Undefined THEN 1
                                     ELSE request.origin[1].lookup_count + 1
                       /\ translation_cache' = translation_cache
                       /\ \A k \in DOMAIN translation_cache' :
                              translation_cache'[k] # Unavailable
        /\ \A l \in LangCodes, w \in WordInputs :
               (LookupWord(l, w) /\ RowKey(l, cleanWord(w)) \notin DOMAIN translation_cache) =>
                   /\ last'.response = Undefined
                   /\ Len(pending') = Len(pending) + 1
                   /\ pending'[Len(pending')].langCode = l
                   /\ pending'[Len(pending')].word = w ]_vars

(* a lookup was answered with the sentinel, and the next lookup of the     *)
(* same word, whose entry is at step 0 with its count incremented again,   *)
(* is waiting for the provider                                             *)
C21_Witness ==
    /\ last.op = "lookup-word"
    /\ last.response = Undefined
    /\ held # Undefined
    /\ held[1].definition = Unavailable
    /\ RowKey(held[1].langCode, cleanWord(held[1].word)) = LastKey
    /\ LastKey \notin DOMAIN translation_cache
    /\ Len(pending) = 1
    /\ pending[1].word = last.words[1]
    /\ db[LastKey].current_step = 0
    /\ db[LastKey].lookup_count >= 2

(* the entries of a language that hold a target_order *)
Ordered(table, langCode) ==
    { k \in DOMAIN table : k[1] = langCode /\ table[k].target_order # NULL }

(* C22: in every reachable state no two entries of one language hold the   *)
(* same non-null target_order, and every entry that holds a target_order   *)
(* has is_target_word = 1.                                                 *)
C22_TargetOrdersDistinct ==
    \A l \in LangCodes :
        /\ \A k1, k2 \in Ordered(db, l) :
               k1 # k2 => db[k1].target_order # db[k2].target_order
        /\ \A k \in Ordered(db, l) : db[k].is_target_word = 1

(* an import with makeTargetList gave an order to an entry that existed    *)
(* without one, next to an entry that keeps the order an earlier import    *)
(* gave it; the new order lies beyond the number of orders held before     *)
C22_Witness ==
    /\ last.op = "import-words" /\ last.makeTargetList /\ last.failAt = 0
    /\ \E k \in NewlyOrdered, j \in Ordered(last.before, last.langCode) :
           /\ k \in DOMAIN last.before
           /\ j # k
           /\ db[k].target_order # NULL
           /\ db[j].target_order = last.before[j].target_order
           /\ db[k].target_order[1] > Cardinality(Ordered(last.before, last.langCode))

====
